---- MODULE Spec2Model ----
(***************************************************************************)
(* Model of solar_cf_tool.py: a Streamlit script that is re-executed top   *)
(* to bottom on every user interaction.  The session state survives the    *)
(* re-executions; everything else is local to one execution.  A run of    *)
(* the analysis (lines 43-118) is split at the iterations of its site     *)
(* loop, because every iteration waits for an external retrieval.          *)
(*                                                                         *)
(* Numbers.  Irradiance sums are integers in Wh/m2.  Annual totals are    *)
(* kept in 1/100 kWh/m2; the rounded table values are integers in the      *)
(* unit of their last decimal (tenths, or thousandths for CF).             *)
(***************************************************************************)
EXTENDS Integers, Sequences, FiniteSets

VARIABLES
    uploaded_file,   \* the file_uploader widget (line 23)
    tilt_angle,      \* slider, degrees (line 27)
    PR,              \* slider, in hundredths (line 28)
    analysis_done,   \* st.session_state['analysis_done']
    result_df,       \* st.session_state['result_df']
    pc,              \* "idle": no execution is running; "loop": inside lines 50-108
    site_df,         \* the frame read at line 38 by the latest execution
    idx,             \* rows of site_df the loop has finished
    results,         \* the list built by the run (line 46)
    progress,        \* the values handed to progress_bar.progress (line 108)
    site_errors,     \* the st.error messages of the run (line 104)
    retrievals,      \* calls of get_pvgis_tmy issued by the run (line 55)
    series,          \* the sums of the latest retrieved series
    shown,           \* the table the latest execution displayed (lines 118, 123)
    charts,          \* the plots and the map the latest execution rendered
    crash,           \* the uncaught exception that ended the latest execution
    run_df,          \* history: site_df of the most recent run that was started
    run_state        \* history: "none", "started", "stored", "aborted" for that run

vars == <<uploaded_file, tilt_angle, PR, analysis_done, result_df, pc, site_df,
          idx, results, progress, site_errors, retrievals, series, shown,
          charts, crash, run_df, run_state>>

\* ---------------------------------------------------------------- bounds

MaxSites == 2

\* ------------------------------------------------------------- constants

HoursPerYear == 8760

\* ---------------------------------------------------------------- values

\* A cell of the result table: a finite number, Python's None, or a float
\* that is NaN or infinite.
Fin(v) == [tag |-> "fin", val |-> v]
NoneVal == [tag |-> "none", val |-> 0]
NaN == [tag |-> "nan", val |-> 0]
Inf == [tag |-> "inf", val |-> 0]

\* pandas' isna: None and NaN are missing, an infinity is not.
IsNull(c) == c.tag \in {"none", "nan"}
IsFinite(c) == c.tag = "fin"

Abs(x) == IF x < 0 THEN -x ELSE x

\* Python's round(): to the nearest, ties to even.  d > 0.
RoundDiv(n, d) ==
    LET q == n \div d
        r == n % d
    IN  IF 2 * r < d THEN q
        ELSE IF 2 * r > d THEN q + 1
        ELSE IF q % 2 = 0 THEN q ELSE q + 1

\* ------------------------------------------------------------ the inputs

RequiredColumns == {"name", "Lat", "Long"}

NoFile == [present |-> FALSE, readable |-> FALSE, columns |-> {}, nrows |-> 0]

\* The files a user may upload: one that read_excel cannot read, and sheets
\* with all the required columns or with one of them missing.
ColumnChoices ==
    {RequiredColumns} \cup {RequiredColumns \ {c} : c \in {"name", "Lat"}}

Files ==
    {[present |-> TRUE, readable |-> FALSE, columns |-> {}, nrows |-> 0]} \cup
    {[present |-> TRUE, readable |-> TRUE, columns |-> c, nrows |-> n] :
        c \in ColumnChoices, n \in 0 .. MaxSites}

\* The cells of sheet row i (the same sites in every sheet).
CellOf(col, i) ==
    CASE col = "name" -> 100 + i
      [] col = "Lat"  -> 10 * i
      [] col = "Long" -> 0 - (3 * i)

NoFrame == [isNone |-> TRUE, columns |-> {}, rows |-> <<>>]
Frame(cols, rws) == [isNone |-> FALSE, columns |-> cols, rows |-> rws]

\* pd.read_excel of a readable file: a frame with a RangeIndex.
ReadExcel(f) ==
    Frame(f.columns, [i \in 1 .. f.nrows |-> [c \in f.columns |-> CellOf(c, i)]])

TiltStops == {20, 60}
PRStops == {85, 100}

\* What one external retrieval and the transposition can come to: an
\* exception, or the sums in Wh/m2 of the hourly GHI and plane-of-array series.
Failure(kind) == [ok |-> FALSE, error |-> kind, ghi_wh |-> 0, poa_wh |-> 0]
Sums(g, p) == [ok |-> TRUE, error |-> "", ghi_wh |-> g, poa_wh |-> p]
NoSeries == Failure("")
ErrorKinds == {"retrieval", "computation"}
Outcomes == {Failure(e) : e \in ErrorKinds} \cup {Sums(0, 0), Sums(1500000, 1700000)}

\* ---------------------------------------------------- per-site estimator

\* sum() / 1000, in 1/100 kWh/m2.
AnnualTotal(sum_wh) == sum_wh \div 10

\* A plausible slip: the derating applied as a gain.
SpecificProdGain(gii, p) == gii * (200 - p)

\* annual_gii * PR, in 1/10000 kWh/kWp.
SpecificProd(gii, p) == gii * p

\* ((annual_gii / annual_ghi) - 1) * 100 rounded to 1 decimal, in tenths.
\* The operands are numpy floats: a zero divisor gives NaN or an infinity.
Uplift(gii, ghi) ==
    IF ghi = 0
    THEN IF gii = 0 THEN NaN ELSE Inf
    ELSE Fin(RoundDiv((gii - ghi) * 1000, ghi))

\* A plausible slip: the capacity factor taken from the rounded production.
CfFromRounded(sp) == RoundDiv(RoundDiv(sp, 1000) * 10000, HoursPerYear)

\* round((specific_prod / 8760) * 100, 3), in thousandths of a percent.
CfPercent(sp) == RoundDiv(sp * 10, HoursPerYear)

\* A plausible slip: the failure entry given a zero capacity factor.
FailureRecordZero(row) ==
    [Site |-> row.name, Lat |-> row.Lat, Long |-> row.Long,
     GII |-> NoneVal, SpecProd |-> NoneVal, CF |-> Fin(0)]

\* The entry of the except branch.
FailureRecord(row) ==
    [Site |-> row.name, Lat |-> row.Lat, Long |-> row.Long,
     GII |-> NoneVal, SpecProd |-> NoneVal, CF |-> NoneVal]

\* The entry of the try branch.
SuccessRecord(row, s, p) ==
    LET annual_gii == AnnualTotal(s.poa_wh)
        annual_ghi == AnnualTotal(s.ghi_wh)
        specific_prod == SpecificProd(annual_gii, p)
    IN  [Site |-> row.name, Lat |-> row.Lat, Long |-> row.Long,
         GHI |-> Fin(RoundDiv(annual_ghi, 10)),
         GII |-> Fin(RoundDiv(annual_gii, 10)),
         Uplift |-> Uplift(annual_gii, annual_ghi),
         SpecProd |-> Fin(RoundDiv(specific_prod, 1000)),
         CF |-> Fin(CfPercent(specific_prod))]

\* The text of st.error(f"Failed for {name}: {e}").
ErrorMessage(name, e) == <<"Failed for", name, e>>

\* A plausible slip: the new entry put in front.
PrependResult(rs, rec) == <<rec>> \o rs

\* results.append
AppendResult(rs, rec) == Append(rs, rec)

\* A plausible slip: the row's label taken for the number of finished rows.
ProgressOffByOne(label, n) == [num |-> label, den |-> n]

\* (idx + 1) / len(site_df), for the RangeIndex label of the row.
ProgressValue(label, n) == [num |-> label + 1, den |-> n]

\* ------------------------------------------------------------ aggregator

\* pd.DataFrame(list of dicts): the columns are the keys of all the entries;
\* a key an entry lacks is NaN, and None is NaN in a column that holds a number.
DataFrame(rs) ==
    LET cols == UNION {DOMAIN rs[i] : i \in 1 .. Len(rs)}
        numeric(c) == \E i \in 1 .. Len(rs) :
                         c \in DOMAIN rs[i] /\ c \notin {"Site", "Lat", "Long"}
                                            /\ rs[i][c].tag # "none"
        cell(i, c) == IF c \notin DOMAIN rs[i] THEN NaN
                      ELSE IF c \in {"Site", "Lat", "Long"} THEN rs[i][c]
                      ELSE IF rs[i][c].tag = "none" /\ numeric(c) THEN NaN
                      ELSE rs[i][c]
    IN  Frame(cols, [i \in 1 .. Len(rs) |-> [c \in cols |-> cell(i, c)]])

\* ---------------------------------------------------------- presentation

NoCharts == [drawn |-> {}, hist |-> <<>>, bars |-> <<>>, markers |-> <<>>,
             map_center |-> <<NaN, NaN>>]
Screen(tbl, ch, ex) == [shown |-> tbl, charts |-> ch, crash |-> ex]

RECURSIVE SumCol(_, _)
SumCol(rws, col) ==
    IF rws = <<>> THEN 0 ELSE rws[1][col] + SumCol(Tail(rws), col)

\* Series.mean(): NaN for an empty column.
Mean(rws, col) ==
    IF rws = <<>> THEN NaN ELSE Fin(SumCol(rws, col) \div Len(rws))

\* The position of the largest CF (the first one of equals).
RECURSIVE ArgMax(_, _, _)
ArgMax(rws, i, best) ==
    IF i > Len(rws) THEN best
    ELSE ArgMax(rws, i + 1, IF rws[i].CF.val > rws[best].CF.val THEN i ELSE best)

\* sort_values('CF (%)', ascending=False)
RECURSIVE SortByCF(_)
SortByCF(rws) ==
    IF rws = <<>> THEN <<>>
    ELSE LET m == ArgMax(rws, 2, 1)
         IN  <<rws[m]>> \o
             SortByCF([i \in 1 .. Len(rws) - 1 |-> IF i < m THEN rws[i] ELSE rws[i + 1]])

\* result_df.dropna(subset=['CF (%)'])
ValidRows(df) ==
    LET HasCF(r) == ~IsNull(r.CF)
    IN  SelectSeq(df.rows, HasCF)

\* Lines 122-204 for the stored frame df.  dropna raises KeyError for a
\* frame without the CF column.  For no valid row the bar chart's figure has
\* height 0, which matplotlib draws or refuses depending on its version
\* (zero_fig_ok), and the map centre is NaN, which folium.Map refuses.
Present(df, zero_fig_ok) ==
    IF "CF" \notin df.columns
    THEN Screen(df, NoCharts, "KeyError")
    ELSE LET valid == ValidRows(df)
             cf_values == [i \in 1 .. Len(valid) |-> valid[i].CF]
             center == <<Mean(valid, "Lat"), Mean(valid, "Long")>>
             plots == [drawn |-> {"hist", "box"}, hist |-> cf_values,
                       bars |-> <<>>, markers |-> <<>>, map_center |-> <<NaN, NaN>>]
             ranked == [plots EXCEPT !.drawn = @ \cup {"bar"},
                                     !.bars = SortByCF(valid)]
             mapped == [ranked EXCEPT !.drawn = @ \cup {"map"},
                                      !.markers = valid,
                                      !.map_center = center]
         IN  IF Len(valid) = 0 /\ ~zero_fig_ok
             THEN Screen(df, plots, "ValueError")
             ELSE IF IsNull(center[1]) \/ IsNull(center[2])
             THEN Screen(df, ranked, "ValueError")
             ELSE Screen(df, mapped, "none")

\* The guard of line 121.
ShowResults(done, df, zero_fig_ok) ==
    IF done /\ ~df.isNone
    THEN Present(df, zero_fig_ok)
    ELSE Screen(NoFrame, NoCharts, "none")

\* ------------------------------------------------------------ executions

Init ==
    /\ uploaded_file = NoFile
    /\ tilt_angle = 20
    /\ PR = 85
    /\ analysis_done = FALSE
    /\ result_df = NoFrame
    /\ pc = "idle"
    /\ site_df = NoFrame
    /\ idx = 0
    /\ results = <<>>
    /\ progress = <<>>
    /\ site_errors = <<>>
    /\ retrievals = 0
    /\ series = NoSeries
    /\ shown = NoFrame
    /\ charts = NoCharts
    /\ crash = "none"
    /\ run_df = NoFrame
    /\ run_state = "none"

\* One execution of the script with run_button False, for the widget values
\* f, t and p: lines 37-41, then lines 121-204.
Rerun(f, t, p) ==
    /\ pc = "idle"
    /\ uploaded_file' = f
    /\ tilt_angle' = t
    /\ PR' = p
    /\ idx' = 0
    /\ results' = <<>>
    /\ progress' = <<>>
    /\ site_errors' = <<>>
    /\ retrievals' = 0
    /\ series' = NoSeries
    /\ IF f.present /\ ~f.readable
       THEN /\ site_df' = NoFrame
            /\ shown' = NoFrame
            /\ charts' = NoCharts
            /\ crash' = "read_excel"
       ELSE /\ site_df' = IF f.present THEN ReadExcel(f) ELSE NoFrame
            /\ \E zf \in BOOLEAN :
                 LET s == ShowResults(analysis_done, result_df, zf)
                 IN  /\ shown' = s.shown
                     /\ charts' = s.charts
                     /\ crash' = s.crash
    /\ UNCHANGED <<analysis_done, result_df, pc, run_df, run_state>>

UploadFile ==
    \E f \in Files : f # uploaded_file /\ Rerun(f, tilt_angle, PR)

RemoveFile ==
    uploaded_file.present /\ Rerun(NoFile, tilt_angle, PR)

MoveSlider ==
    \E t \in TiltStops, p \in PRStops :
        <<t, p>> # <<tilt_angle, PR>> /\ Rerun(uploaded_file, t, p)

\* A plausible slip: the flag of the previous run left as it is.
KeepDone == analysis_done

\* Line 44.
ResetDone == FALSE

\* The button of line 41 exists when the previous execution got to it.  The
\* execution it starts runs lines 37-47.
PressRun ==
    /\ pc = "idle"
    /\ uploaded_file.present
    /\ uploaded_file.readable
    /\ site_df' = ReadExcel(uploaded_file)
    /\ analysis_done' = ResetDone
    /\ results' = <<>>
    /\ progress' = <<>>
    /\ idx' = 0
    /\ site_errors' = <<>>
    /\ retrievals' = 0
    /\ series' = NoSeries
    /\ shown' = NoFrame
    /\ charts' = NoCharts
    /\ crash' = "none"
    /\ pc' = "loop"
    /\ run_df' = site_df'
    /\ run_state' = "started"
    /\ UNCHANGED <<uploaded_file, tilt_angle, PR, result_df>>

\* Lines 106-108 and the next turn of the loop.
Advance ==
    /\ progress' = Append(progress, ProgressValue(idx, Len(site_df.rows)))
    /\ idx' = idx + 1
    /\ UNCHANGED <<pc, crash, run_state>>

\* Lines 78-93.
SiteSucceeds(row, s) ==
    /\ results' = AppendResult(results, SuccessRecord(row, s, PR))
    /\ site_errors' = site_errors
    /\ Advance

\* A plausible slip: no handler, the exception ends the execution.
SiteFailsUncaught(row, e) ==
    /\ pc' = "idle"
    /\ crash' = e
    /\ run_state' = "aborted"
    /\ UNCHANGED <<results, site_errors, progress, idx>>

\* Lines 95-104.
SiteFails(row, e) ==
    /\ results' = AppendResult(results, FailureRecord(row))
    /\ site_errors' = Append(site_errors, ErrorMessage(row.name, e))
    /\ Advance

\* One turn of the loop of lines 50-108.  Lines 51-53 are outside the try:
\* a missing column ends the execution with a KeyError.
ProcessSite ==
    /\ pc = "loop"
    /\ idx < Len(site_df.rows)
    /\ LET row == site_df.rows[idx + 1]
       IN  IF ~(RequiredColumns \subseteq DOMAIN row)
           THEN /\ pc' = "idle"
                /\ crash' = "KeyError"
                /\ run_state' = "aborted"
                /\ UNCHANGED <<results, site_errors, progress, idx, retrievals, series>>
           ELSE \E o \in Outcomes :
                  /\ retrievals' = retrievals + 1
                  /\ series' = o
                  /\ IF o.ok THEN SiteSucceeds(row, o) ELSE SiteFails(row, o.error)
    /\ UNCHANGED <<uploaded_file, tilt_angle, PR, analysis_done, result_df,
                   site_df, shown, charts, run_df>>

\* Lines 110-118, then lines 121-204 in the same execution.
FinishRun ==
    /\ pc = "loop"
    /\ idx = Len(site_df.rows)
    /\ result_df' = DataFrame(results)
    /\ analysis_done' = TRUE
    /\ run_state' = "stored"
    /\ pc' = "idle"
    /\ \E zf \in BOOLEAN :
         LET s == ShowResults(analysis_done', result_df', zf)
         IN  /\ shown' = s.shown
             /\ charts' = s.charts
             /\ crash' = s.crash
    /\ UNCHANGED <<uploaded_file, tilt_angle, PR, site_df, idx, results, progress,
                   site_errors, retrievals, series, run_df>>

Next ==
    \/ UploadFile
    \/ RemoveFile
    \/ MoveSlider
    \/ PressRun
    \/ ProcessSite
    \/ FinishRun

Spec == Init /\ [][Next]_vars

\* The script runs to its end once started: every turn of the loop ends with
\* the retrieval's answer or its 30 s timeout.
FairSpec == Spec /\ WF_vars(ProcessSite) /\ WF_vars(FinishRun)

\* ------------------------------------------- the estimator on its own

\* The slider positions: 0 to 60 degrees, 0.5 to 1.0 in steps of 0.01.
TiltRange == {0, 20, 60}
PRRange == 50 .. 100

\* Annual sums in Wh/m2, multiples of 10.  The last plane-of-array sum is
\* more than 1000 W/m2 around the clock.
GhiSums == {0, 1000000, 1500000, HoursPerYear * 1000}
PoaSums == {0, 900000, 1234560, 1700000, HoursPerYear * 1000, 9000000}

OneSite == ReadExcel([present |-> TRUE, readable |-> TRUE,
                      columns |-> RequiredColumns, nrows |-> 1])

CalcInit ==
    /\ uploaded_file = NoFile
    /\ tilt_angle \in TiltRange
    /\ PR \in PRRange
    /\ analysis_done = FALSE
    /\ result_df = NoFrame
    /\ pc = "loop"
    /\ site_df = OneSite
    /\ idx = 0
    /\ results = <<>>
    /\ progress = <<>>
    /\ site_errors = <<>>
    /\ retrievals = 0
    /\ series \in {Sums(g, p) : g \in GhiSums, p \in PoaSums}
    /\ shown = NoFrame
    /\ charts = NoCharts
    /\ crash = "none"
    /\ run_df = OneSite
    /\ run_state = "started"

\* The try branch for the series drawn by CalcInit.
Estimate ==
    /\ pc = "loop"
    /\ idx = 0
    /\ retrievals' = retrievals + 1
    /\ SiteSucceeds(site_df.rows[1], series)
    /\ UNCHANGED <<uploaded_file, tilt_angle, PR, analysis_done, result_df,
                   site_df, series, shown, charts, run_df>>

CalcNext == Estimate

CalcSpec == CalcInit /\ [][CalcNext]_vars

\* ------------------------------------------------------------ properties

NumericColumns == {"GHI", "GII", "Uplift", "SpecProd", "CF"}

\* The row r of a frame or entry of the list has no value in column c.
NullAt(r, c) == c \notin DOMAIN r \/ IsNull(r[c])

\* The latest turn of the loop ended in the except branch.
LastFailed == idx >= 1 /\ Len(results) = idx /\ ~series.ok

\* The entry or frame row r carries the name and coordinates of sheet row w.
SameSite(r, w) == r.Site = w.name /\ r.Lat = w.Lat /\ r.Long = w.Long

\* C1: while the loop runs the list holds one entry per finished row, in
\* the order of the sheet, and the frame a finished run stores holds one row
\* per row of the sheet, row i with the name, latitude and longitude of
\* sheet row i, whichever sites failed.
C1_OneResultPerSiteInOrder ==
    /\ pc = "loop" =>
         /\ Len(results) = idx
         /\ \A i \in 1 .. Len(results) : SameSite(results[i], run_df.rows[i])
    /\ run_state = "stored" =>
         /\ ~result_df.isNone
         /\ Len(result_df.rows) = Len(run_df.rows)
         /\ \A i \in 1 .. Len(result_df.rows) :
              SameSite(result_df.rows[i], run_df.rows[i])

C1_Witness ==
    /\ run_state = "stored"
    /\ Len(result_df.rows) = MaxSites
    /\ MaxSites >= 2
    /\ IsNull(result_df.rows[1].CF)
    /\ ~IsNull(result_df.rows[MaxSites].CF)

C3_RunCompletes ==
    (pc = "loop" /\ RequiredColumns \subseteq site_df.columns)
        ~> (/\ pc = "idle"
            /\ run_state = "stored"
            /\ analysis_done
            /\ idx = Len(site_df.rows)
            /\ ~result_df.isNone
            /\ Len(result_df.rows) = Len(site_df.rows))

C3_Witness ==
    /\ pc = "idle"
    /\ run_state = "stored"
    /\ analysis_done
    /\ idx = MaxSites
    /\ Len(result_df.rows) = MaxSites
    /\ Len(site_errors) >= 1
    /\ IsNull(result_df.rows[1].CF)

\* C4 as stated: in every row of a stored result set the five numeric
\* cells are all finite numbers or all null (a cell not set counts as null).
C4_NoPartialResults ==
    \A i \in 1 .. Len(result_df.rows) :
        \/ \A c \in NumericColumns : NullAt(result_df.rows[i], c)
        \/ \A c \in NumericColumns :
             c \in DOMAIN result_df.rows[i] /\ IsFinite(result_df.rows[i][c])

\* The sums of the series the estimator has worked on.
Estimated == pc = "loop" /\ idx = 1 /\ series.ok /\ Len(results) = 1

ExampleInput ==
    tilt_angle = 20 /\ PR = 85 /\ series = Sums(1500000, 1700000)

\* C5 as stated: for tilt 20, PR 0.85, GHI 1500 and GII 1700 the entry has
\* specific production 1445.0, capacity factor 16.496 and uplift 13.3.
C5_ExampleAsStated ==
    Estimated /\ ExampleInput =>
        /\ results[1].SpecProd = Fin(14450)
        /\ results[1].CF = Fin(16496)
        /\ results[1].Uplift = Fin(133)

\* C5 amended: specific production is GII x PR to the nearest tenth, the
\* capacity factor is GII x PR / 8760 x 100 (the production not rounded) to
\* the nearest thousandth, uplift is (GII / GHI - 1) x 100 to the nearest
\* tenth when GHI is not zero; the example gives 1445.0, 16.495 and 13.3.
C5_YieldFormulas ==
    Estimated =>
        LET r == results[1]
            poa == series.poa_wh
            ghi == series.ghi_wh
        IN  /\ IsFinite(r.SpecProd)
            /\ Abs(poa * PR - r.SpecProd.val * 10000) <= 5000
            /\ IsFinite(r.CF)
            /\ Abs(poa * PR - r.CF.val * HoursPerYear) <= HoursPerYear \div 2
            /\ ghi > 0 =>
                 /\ IsFinite(r.Uplift)
                 /\ 2 * Abs((poa - ghi) * 100 - r.Uplift.val * (ghi \div 10))
                      <= ghi \div 10
            /\ ExampleInput =>
                 /\ r.SpecProd = Fin(14450)
                 /\ r.CF = Fin(16495)
                 /\ r.Uplift = Fin(133)

C5_Witness == Estimated /\ ExampleInput /\ results[1].CF = Fin(16495)

\* C6: for a plane-of-array sum between 0 and 8760 kWh/m2, a performance
\* ratio between 0.5 and 1.0 and a tilt between 0 and 60 the capacity
\* factor of a successful site is between 0 and 100 percent.
C6_CapacityFactorInRange ==
    /\ Estimated
    /\ series.poa_wh >= 0
    /\ series.poa_wh <= HoursPerYear * 1000
    /\ PR >= 50 /\ PR <= 100
    /\ tilt_angle >= 0 /\ tilt_angle <= 60
    => /\ IsFinite(results[1].CF)
       /\ results[1].CF.val >= 0
       /\ results[1].CF.val <= 100 * 1000

C6_Witness ==
    /\ Estimated
    /\ series.poa_wh = HoursPerYear * 1000
    /\ PR = 100
    /\ results[1].CF = Fin(100 * 1000)

\* The latest execution presented a result set none of whose sites succeeded.
AllFailedShown ==
    /\ ~shown.isNone
    /\ Len(shown.rows) >= 1
    /\ \A i \in 1 .. Len(shown.rows) : NullAt(shown.rows[i], "CF")

\* C7 as stated: the plots and the map hold only rows with a capacity
\* factor, and a result set in which every site failed is rendered as empty
\* plots and an empty map without the execution ending in an exception.
C7_AllFailedRendersEmptyCharts ==
    /\ \A i \in 1 .. Len(charts.hist) : ~IsNull(charts.hist[i])
    /\ \A i \in 1 .. Len(charts.bars) : ~IsNull(charts.bars[i].CF)
    /\ \A i \in 1 .. Len(charts.markers) : ~IsNull(charts.markers[i].CF)
    /\ AllFailedShown =>
         /\ crash = "none"
         /\ charts.drawn = {"hist", "box", "bar", "map"}
         /\ charts.hist = <<>> /\ charts.bars = <<>> /\ charts.markers = <<>>

\* C8 as stated: an unreadable file, or a sheet without a required column,
\* ends the execution with one error before any site is processed: no
\* retrieval is issued, no entry is appended, and no result set is stored
\* or presented for that run.
C8_MalformedInputIsFatal ==
    /\ uploaded_file.present /\ ~uploaded_file.readable =>
         pc = "idle" /\ crash = "read_excel" /\ shown.isNone
    /\ run_state # "none" /\ ~(RequiredColumns \subseteq run_df.columns) =>
         /\ run_state # "stored"
         /\ pc = "loop" \/ run_state = "aborted" =>
              retrievals = 0 /\ results = <<>> /\ shown.isNone

\* C9: the k-th value handed to the progress bar is k / total: the values
\* rise strictly, none is above 1, the value is 1 after the last row and
\* only then; a run on an empty sheet hands over no value and divides by
\* nothing.
C9_ProgressIsCompletedOverTotal ==
    LET total == Len(run_df.rows)
    IN  /\ pc = "loop" => Len(progress) = idx
        /\ Len(progress) <= total
        /\ \A k \in 1 .. Len(progress) :
             /\ progress[k].den > 0
             /\ progress[k].num * total = k * progress[k].den
             /\ progress[k].num <= progress[k].den
             /\ (progress[k].num = progress[k].den) <=> (k = total)
             /\ k > 1 => progress[k - 1].num * progress[k].den
                           < progress[k].num * progress[k - 1].den
        /\ run_state = "stored" /\ idx = total /\ total > 0 =>
             Len(progress) = total
        /\ total = 0 /\ run_state \in {"started", "stored"} => progress = <<>>

C9_Witness ==
    /\ run_state = "stored"
    /\ Len(progress) = MaxSites
    /\ MaxSites >= 2
    /\ progress[MaxSites].num = progress[MaxSites].den
    /\ Len(site_errors) >= 1

\* C10: a table is on the screen only when analysis_done holds and
\* result_df is set, and it is result_df; analysis_done is false while the
\* loop runs and after a run has ended in an exception, so whenever it holds
\* result_df is the whole result set of the most recent run that was
\* started, and the results of an earlier run are not presented after a run
\* that was aborted.
C10_OnlyCurrentResultsPresented ==
    /\ ~shown.isNone => analysis_done /\ ~result_df.isNone /\ shown = result_df
    /\ pc = "loop" => ~analysis_done /\ run_state = "started"
    /\ run_state \in {"started", "aborted"} => ~analysis_done /\ shown.isNone
    /\ analysis_done =>
         /\ run_state = "stored"
         /\ ~result_df.isNone
         /\ Len(result_df.rows) = Len(run_df.rows)

C10_Witness ==
    /\ pc = "idle"
    /\ run_state = "aborted"
    /\ crash = "none"
    /\ ~result_df.isNone
    /\ Len(result_df.rows) >= 1
    /\ shown.isNone

====
